---- MODULE Spec2Model ----
(***************************************************************************)
(* Model of mstrio.modeling.schema.attribute.Attribute: the local          *)
(* validation of forms / key_form / displays / sorts and the form          *)
(* lifecycle operations (create, alter, add_form, remove_form).            *)
(*                                                                         *)
(* A form is a record [id, name]; form number i has id i and name -i, so   *)
(* an id never equals a name.  A FormReference is a record [id, name] in   *)
(* which None (0) marks the field that was not given.                      *)
(***************************************************************************)
EXTENDS Integers, Sequences, FiniteSets, TLC

\* ------------------------------------------------------------------ bounds
NumForms == 3        \* forms known to the project: ids 1..NumForms
NumRefs == 2         \* forms 1..NumRefs are referenced in the displays / sorts an operation is given
MaxRefs == 2         \* longest report_displays list a caller passes
MaxSortRefs == 1     \* longest report_sorts list a caller passes
MaxBatch == 2        \* longest attributes_data list given to create_many / update_many
MaxRels == 3         \* relationships an attribute is given before no more are added
MaxSubs == 3         \* longest list of subscriptions given to the SubscriptionManager

\* ------------------------------------------------------------ value domain
None == 0

FormIds == 1..NumForms

Form(i) == [id |-> i, name |-> 0 - i]

IdRef(i) == [id |-> i, name |-> None]

NameRef(i) == [id |-> None, name |-> 0 - i]

\* key_form=None
NoRef == [id |-> None, name |-> None]

\* AttributeDisplays(report_displays, browse_displays); is_none marks displays=None
MkDisplays(r, b) == [is_none |-> FALSE, report_displays |-> r, browse_displays |-> b]

NoDisplays == [is_none |-> TRUE, report_displays |-> <<>>, browse_displays |-> <<>>]

\* a sort list is optional: report_sorts=None differs from report_sorts=[]
SomeList(s) == [is_none |-> FALSE, items |-> s]

NoList == [is_none |-> TRUE, items |-> <<>>]

\* AttributeSort(form=ref)
SortOn(ref) == [form |-> ref]

\* AttributeSorts(report_sorts, browse_sorts); is_none marks sorts=None
MkSorts(r, b) == [is_none |-> FALSE, report_sorts |-> r, browse_sorts |-> b]

NoSorts == [is_none |-> TRUE, report_sorts |-> NoList, browse_sorts |-> NoList]

\* results of the validators: a returned value or a raised error
Ok(v) == [ok |-> TRUE, err |-> "", value |-> v]

Raise(e, v) == [ok |-> FALSE, err |-> e, value |-> v]

\* ----------------------------------------------------------- list helpers
RECURSIVE SeqsUpTo(_, _)
SeqsUpTo(S, n) ==
    IF n = 0 THEN {<<>>}
    ELSE LET shorter == SeqsUpTo(S, n - 1)
         IN shorter \cup {Append(s, x) : s \in shorter, x \in S}

\* [f(x) for x in s]
RECURSIVE MapIdRefs(_)
MapIdRefs(fs) ==
    IF fs = <<>> THEN <<>>
    ELSE <<IdRef(Head(fs).id)>> \o MapIdRefs(Tail(fs))

RECURSIVE SortForms(_)
SortForms(ss) ==
    IF ss = <<>> THEN <<>>
    ELSE <<Head(ss).form>> \o SortForms(Tail(ss))

\* [x for x in s if keep(x)] for the id test of remove_form
RECURSIVE FormsWithoutId(_, _)
FormsWithoutId(fs, fid) ==
    IF fs = <<>> THEN <<>>
    ELSE IF Head(fs).id = fid THEN FormsWithoutId(Tail(fs), fid)
         ELSE <<Head(fs)>> \o FormsWithoutId(Tail(fs), fid)

\* ------------------------------------------------------------- validators
\* AttributeForm.is_referenced_by: the reference matches by id or by name
is_referenced_by(form, ref) ==
    \/ ref.id # None /\ form.id = ref.id
    \/ ref.name # None /\ form.name = ref.name

DefaultKeyFormMsg == "Please select a key_form from the forms provided."

validate_key_form_no_single(key_form, forms, error_msg) ==
    IF forms = <<>> THEN Raise("forms can not be empty.", NoRef)
    ELSE IF key_form = NoRef
            \/ ~ \E i \in DOMAIN forms : is_referenced_by(forms[i], key_form)
         THEN Raise(IF error_msg # "" THEN error_msg ELSE DefaultKeyFormMsg, NoRef)
         ELSE Ok(key_form)

validate_key_form_ignores_msg(key_form, forms, error_msg) ==
    IF forms = <<>> THEN Raise("forms can not be empty.", NoRef)
    ELSE IF Len(forms) = 1 THEN Ok([id |-> None, name |-> forms[1].name])
    ELSE IF key_form = NoRef
            \/ ~ \E i \in DOMAIN forms : is_referenced_by(forms[i], key_form)
         THEN Raise(DefaultKeyFormMsg, NoRef)
         ELSE Ok(key_form)

validate_key_form(key_form, forms, error_msg) ==
    IF forms = <<>> THEN Raise("forms can not be empty.", NoRef)
    ELSE IF Len(forms) = 1 THEN Ok([id |-> None, name |-> forms[1].name])
    ELSE IF key_form = NoRef
            \/ ~ \E i \in DOMAIN forms : is_referenced_by(forms[i], key_form)
         THEN Raise(IF error_msg # "" THEN error_msg ELSE DefaultKeyFormMsg, NoRef)
         ELSE Ok(key_form)

check_if_referenced_forms_exist_first_only(forms, refs) ==
    refs = <<>> \/ \E i \in DOMAIN forms : is_referenced_by(forms[i], refs[1])

\* TRUE when check_if_referenced_forms_exist returns without raising
check_if_referenced_forms_exist(forms, refs) ==
    \A k \in DOMAIN refs : \E i \in DOMAIN forms : is_referenced_by(forms[i], refs[k])

DisplaysMsg == "FormReference present in displays is not present in forms."

FillDisplays_always(displays, forms) ==
    MkDisplays(MapIdRefs(forms), MapIdRefs(forms))

FillDisplays_report_only(displays, forms) ==
    MkDisplays(
        IF displays.report_displays = <<>> THEN MapIdRefs(forms)
        ELSE displays.report_displays,
        displays.browse_displays)

\* the displays object after the two default-filling assignments
FillDisplays(displays, forms) ==
    MkDisplays(
        IF displays.report_displays = <<>> THEN MapIdRefs(forms)
        ELSE displays.report_displays,
        IF displays.browse_displays = <<>> THEN MapIdRefs(forms)
        ELSE displays.browse_displays)

\* the value of a failed call is the (mutated) displays object it was given
validate_displays(displays, forms) ==
    IF displays.is_none
    THEN Ok(MkDisplays(MapIdRefs(forms), MapIdRefs(forms)))
    ELSE LET filled == FillDisplays(displays, forms)
         IN IF /\ check_if_referenced_forms_exist(forms, filled.report_displays)
               /\ check_if_referenced_forms_exist(forms, filled.browse_displays)
            THEN Ok(filled)
            ELSE Raise(DisplaysMsg, filled)

SortsMsg == "FormReference present in sort is not present in forms."

validate_sorts(sorts, forms) ==
    IF sorts.is_none \/ (sorts.browse_sorts.is_none /\ sorts.report_sorts.is_none)
    THEN Ok(NoSorts)
    ELSE IF /\ sorts.report_sorts.is_none
               \/ check_if_referenced_forms_exist(
                      forms, SortForms(sorts.report_sorts.items))
            /\ sorts.browse_sorts.is_none
               \/ check_if_referenced_forms_exist(
                      forms, SortForms(sorts.browse_sorts.items))
         THEN Ok(sorts)
         ELSE Raise(SortsMsg, sorts)

\* ------------------------------------------------- cascade of remove_form
\* the loop "for index ...: if is_referenced_by: pop(index); break"
RECURSIVE PopFirstRef(_, _)
PopFirstRef(form, refs) ==
    IF refs = <<>> THEN <<>>
    ELSE IF is_referenced_by(form, Head(refs)) THEN Tail(refs)
         ELSE <<Head(refs)>> \o PopFirstRef(form, Tail(refs))

RECURSIVE PopFirstSort(_, _)
PopFirstSort(form, ss) ==
    IF ss = <<>> THEN <<>>
    ELSE IF is_referenced_by(form, Head(ss).form) THEN Tail(ss)
         ELSE <<Head(ss)>> \o PopFirstSort(form, Tail(ss))

NoneTypeMsg == "'NoneType' object has no attribute"

\* the copy of displays after the two pop loops, before re-validation
StripDisplays(form_to_be_removed, displays) ==
    MkDisplays(PopFirstRef(form_to_be_removed, displays.report_displays),
               PopFirstRef(form_to_be_removed, displays.browse_displays))

_remove_form_from_displays(form_to_be_removed, forms, displays) ==
    IF displays.is_none THEN Raise(NoneTypeMsg, displays)
    ELSE validate_displays(StripDisplays(form_to_be_removed, displays), forms)

\* "if sorts.report_sorts:" skips a list that is None or empty
StripSortList(form_to_be_removed, lst) ==
    IF lst.is_none \/ lst.items = <<>> THEN lst
    ELSE SomeList(PopFirstSort(form_to_be_removed, lst.items))

StripSorts(form_to_be_removed, sorts) ==
    MkSorts(StripSortList(form_to_be_removed, sorts.report_sorts),
            StripSortList(form_to_be_removed, sorts.browse_sorts))

_remove_form_from_sorts(form_to_be_removed, forms, sorts) ==
    IF sorts.is_none THEN Raise(NoneTypeMsg, sorts)
    ELSE validate_sorts(StripSorts(form_to_be_removed, sorts), forms)

\* ------------------------------------------------------------ input sets
FormSet == {Form(i) : i \in FormIds}

IdRefs == {IdRef(i) : i \in FormIds}

NameRefs == {NameRef(i) : i \in FormIds}

\* a reference carrying both the id and the name of one form
BothRefs == {[id |-> i, name |-> 0 - i] : i \in FormIds}

\* key_form arguments: None, or a reference by id or by name
KeyInputs == {NoRef} \cup IdRefs \cup NameRefs

\* lists of distinct forms, in any order
FormLists ==
    {fs \in SeqsUpTo(FormSet, NumForms) :
        \A i, j \in DOMAIN fs : i # j => fs[i] # fs[j]}

\* the forms of S in id order
RECURSIVE AscSeq(_)
AscSeq(S) ==
    IF S = {} THEN <<>>
    ELSE LET m == CHOOSE x \in S : \A y \in S : x <= y
         IN <<Form(m)>> \o AscSeq(S \ {m})

\* lists of distinct forms in id order (the code compares ids for equality
\* only, so any list of distinct forms is one of these up to renaming)
AscForms == {AscSeq(S) : S \in SUBSET FormIds}

RECURSIVE AsSorts(_)
AsSorts(refs) ==
    IF refs = <<>> THEN <<>>
    ELSE <<SortOn(Head(refs))>> \o AsSorts(Tail(refs))

OptSortLists(Refs, n) == {NoList} \cup {SomeList(AsSorts(r)) : r \in SeqsUpTo(Refs, n)}

\* references to forms 1..NumRefs, by id
OpRefs == {IdRef(i) : i \in 1..NumRefs}

\* references to forms 1..NumRefs, by id or by name
ValRefs == OpRefs \cup {NameRef(i) : i \in 1..NumRefs}

\* displays / sorts arguments of the validators: lists of references by
\* id or name, in any order
DisplaysInputs ==
    {NoDisplays} \cup
    {MkDisplays(r, b) : r \in SeqsUpTo(ValRefs, MaxRefs),
                        b \in SeqsUpTo(ValRefs, MaxSortRefs)}

SortsInputs ==
    {NoSorts} \cup
    {MkSorts(r, b) : r \in OptSortLists(ValRefs, MaxSortRefs),
                     b \in OptSortLists(ValRefs, MaxSortRefs)}

\* arguments of the attribute operations.  Displays and sorts reference
\* forms 1..NumRefs by id, key forms are referenced by name, and the browse
\* list is given the same references as the report list (the validators
\* are called with independent lists in ValidatorSpec).  A reference list
\* is given in id order, repetitions included: the code looks a reference
\* up by equality and never compares positions
OpKeys == {NoRef} \cup NameRefs

OpRefLists(n) ==
    {r \in SeqsUpTo(OpRefs, n) :
        \A i, j \in DOMAIN r : i < j => r[i].id <= r[j].id}

OpDisplays == {MkDisplays(r, r) : r \in OpRefLists(MaxRefs)}

OpSorts ==
    {MkSorts(NoList, NoList)} \cup
    {MkSorts(SomeList(AsSorts(r)), SomeList(AsSorts(r))) : r \in OpRefLists(MaxSortRefs)}

\* ------------------------------------------------------------------ state
VARIABLES
    created,     \* the attribute exists on the server (Attribute.create returned)
    forms,       \* Attribute.forms
    key_form,    \* Attribute.key_form
    displays,    \* Attribute.displays
    sorts,       \* Attribute.sorts
    relationships, \* Attribute.relationships
    last,        \* the last operation called: arguments, locals and outcome
    call,        \* arguments of a direct call of a validator
    ret          \* what that call returned or raised

vars == <<created, forms, key_form, displays, sorts, relationships, last, call, ret>>

NoForm == [id |-> None, name |-> None]

\* a record of one operation; the remove_form fields keep their defaults
\* for the other operations
Op(name, outcome, submitted) ==
    [op |-> name, outcome |-> outcome, submitted |-> submitted,
     validated |-> FALSE, supplied |-> FALSE, truthy |-> FALSE,
     named |-> FALSE, other |-> FALSE,
     form_id |-> None, key_given |-> FALSE, new_key_form |-> NoRef,
     forms_before |-> <<>>, form_to_del |-> NoForm,
     new_forms |-> <<>>, was_key |-> FALSE,
     left_displays |-> NoDisplays, left_sorts |-> NoSorts,
     arg |-> <<>>]

NoCall ==
    [fn |-> "none", key_form |-> NoRef, forms |-> <<>>, error_msg |-> "",
     displays |-> NoDisplays, sorts |-> NoSorts]

Pending == Raise("pending", NoRef)

\* no call of an operation is in progress: the caller has taken the result
\* of its last call and is free to make the next one
Idle == last.op = "none"

Init ==
    /\ created = FALSE
    /\ forms = <<>>
    /\ key_form = NoRef
    /\ displays = NoDisplays
    /\ sorts = NoSorts
    /\ relationships = <<>>
    /\ last = Op("none", "ok", FALSE)
    /\ call = NoCall
    /\ ret = Pending

\* ------------------------------------------------------------- operations
\* the first validator that raises decides the error of the three-step
\* validation shared by _get_create_body and alter
FirstError(vk, vd, vs) ==
    IF ~vk.ok THEN vk.err ELSE IF ~vd.ok THEN vd.err ELSE vs.err

\* _get_create_body: validate, then build the body; None values are pruned,
\* so a body without sorts carries NoSorts
_get_create_body(f, k, d, s) ==
    LET vk == validate_key_form(k, f, "")
        vd == validate_displays(d, f)
        vs == validate_sorts(s, f)
    IN IF vk.ok /\ vd.ok /\ vs.ok
       THEN Ok([forms |-> f, key_form |-> vk.value,
                displays |-> vd.value, sorts |-> vs.value])
       ELSE Raise(FirstError(vk, vd, vs),
                  [forms |-> f, key_form |-> k, displays |-> d, sorts |-> s])

\* Attribute.create: the attribute is built from the server's response,
\* which echoes the body
Create(f, k, d, s) ==
    /\ ~created
    /\ LET body == _get_create_body(f, k, d, s)
       IN IF body.ok
          THEN /\ created' = TRUE
               /\ forms' = body.value.forms
               /\ key_form' = body.value.key_form
               /\ displays' = body.value.displays
               /\ sorts' = body.value.sorts
               /\ last' = Op("create", "ok", TRUE)
          ELSE /\ last' = Op("create", body.err, FALSE)
               /\ UNCHANGED <<created, forms, key_form, displays, sorts>>
    /\ UNCHANGED <<call, ret, relationships>>

\* Entity._alter_properties: the properties that are not None are sent in
\* one partial update and become the local values
_alter_properties(f, k, d, s) ==
    /\ forms' = IF f.is_none THEN forms ELSE f.items
    /\ key_form' = IF k = NoRef THEN key_form ELSE k
    /\ displays' = IF d.is_none THEN displays ELSE d
    /\ sorts' = IF s.is_none THEN sorts ELSE s

HasProperties(f, k, d, s, named) ==
    ~f.is_none \/ k # NoRef \/ ~d.is_none \/ ~s.is_none \/ named

\* truth value of the forms argument: None and [] are both false
Truthy(f) == ~f.is_none /\ f.items # <<>>

Validates_four_only(f, k, d, s, named) ==
    ~f.is_none \/ k # NoRef \/ ~d.is_none \/ ~s.is_none

\* any([sub_type, name, is_embedded, description, destination_folder_id,
\*      forms, attribute_lookup_table, key_form, displays, sorts])
Validates(f, k, d, s, named) ==
    named \/ Truthy(f) \/ k # NoRef \/ ~d.is_none \/ ~s.is_none

\* Attribute.alter with forms=f (NoList for None), key_form=k, displays=d,
\* sorts=s; named says whether a name (or sub_type, is_embedded, description,
\* destination_folder_id, attribute_lookup_table) is given, other whether
\* comments, owner or a hidden that differs from the current one is given
Alter(f, k, d, s, named, other) ==
    /\ created
    /\ LET validates == Validates(f, k, d, s, named)
           called == [Op("alter", "ok", FALSE) EXCEPT
                         !.named = named, !.other = other,
                         !.supplied = (~f.is_none \/ k # NoRef
                                        \/ ~d.is_none \/ ~s.is_none),
                         !.truthy = (Truthy(f) \/ k # NoRef
                                      \/ ~d.is_none \/ ~s.is_none)]
           use_forms == IF Truthy(f) THEN f.items ELSE forms
           vk == validate_key_form(IF k # NoRef THEN k ELSE key_form, use_forms, "")
           vd == validate_displays(IF ~d.is_none THEN d ELSE displays, use_forms)
           vs == validate_sorts(IF ~s.is_none THEN s ELSE sorts, use_forms)
       IN IF validates /\ ~(vk.ok /\ vd.ok /\ vs.ok)
          THEN /\ last' = [called EXCEPT !.outcome = FirstError(vk, vd, vs),
                                          !.validated = TRUE]
               \* validate_displays fills the empty lists of the object it
               \* is given, here the attribute's own displays, before it
               \* or validate_sorts raises
               /\ displays' = IF d.is_none /\ ~displays.is_none /\ vk.ok
                               THEN vd.value ELSE displays
               /\ UNCHANGED <<forms, key_form, sorts>>
          ELSE /\ IF validates
                  THEN _alter_properties(f, vk.value, vd.value, vs.value)
                  ELSE _alter_properties(f, k, d, s)
               /\ last' = [called EXCEPT
                              !.submitted = HasProperties(f, k, d, s, named \/ other),
                              !.validated = validates]
    /\ UNCHANGED <<created, call, ret, relationships>>

\* the argument combinations of alter that are explored: nothing or only
\* a name or an owner, one of forms / key_form / displays / sorts, or
\* forms=[] with or without a name
AlterCall ==
    /\ created
    /\ Idle
    /\ \/ \E named, other \in BOOLEAN :
              Alter(NoList, NoRef, NoDisplays, NoSorts, named, other)
       \/ \E f \in AscForms : Alter(SomeList(f), NoRef, NoDisplays, NoSorts, FALSE, FALSE)
       \/ \E named \in BOOLEAN :
              Alter(SomeList(<<>>), NoRef, NoDisplays, NoSorts, named, FALSE)
       \/ \E k \in NameRefs : Alter(NoList, k, NoDisplays, NoSorts, FALSE, FALSE)
       \/ \E d \in OpDisplays : Alter(NoList, NoRef, d, NoSorts, FALSE, FALSE)
       \/ \E s \in OpSorts : Alter(NoList, NoRef, NoDisplays, s, FALSE, FALSE)

\* Attribute.add_form with a form object (or with expressions and a lookup
\* table, which builds the form locally): the new form goes last
AddForm(form) ==
    /\ created
    /\ Idle
    /\ \A i \in DOMAIN forms : forms[i].id < form.id
    /\ _alter_properties(SomeList(Append(forms, form)), NoRef, NoDisplays, NoSorts)
    /\ last' = Op("add_form", "ok", TRUE)
    /\ UNCHANGED <<created, call, ret, relationships>>

\* Attribute.add_form with neither a form nor expressions and lookup_table
AddFormNothing ==
    /\ created
    /\ Idle
    /\ last' = Op("add_form",
                  "Please provide either form or expressions and lookup_table", FALSE)
    /\ UNCHANGED <<created, forms, key_form, displays, sorts, call, ret, relationships>>

\* the form the loop of remove_form leaves in form_to_del: the last one
\* with the id, NoForm when there is none
RECURSIVE FindForm(_, _)
FindForm(fs, fid) ==
    IF fs = <<>> THEN NoForm
    ELSE IF fs[Len(fs)].id = fid THEN fs[Len(fs)]
         ELSE FindForm(SubSeq(fs, 1, Len(fs) - 1), fid)

KeyFormDelMsg == "You are trying to delete the current key form. Please chose new key form."

LastFormMsg == "You can not delete the last attribute form"

NotFoundMsg == "Attribute does not contain attribute form with this ID"

IsLastForm_never(new_forms) == FALSE

\* the check "elif len(new_forms) == 0" of remove_form
IsLastForm(new_forms) == Len(new_forms) = 0

NewKeyForm_unvalidated(form_to_del, new_forms, new_key_form) == Ok(new_key_form)

\* the key form remove_form goes on with: validated against the remaining
\* forms when the removed form is the current key form, otherwise the
\* argument (or the current key form) as it is
NewKeyForm(form_to_del, new_forms, new_key_form) ==
    IF is_referenced_by(form_to_del, key_form)
    THEN validate_key_form(new_key_form, new_forms, KeyFormDelMsg)
    ELSE Ok(new_key_form)

\* Attribute.remove_form(form_id, new_key_form)
RemoveForm(form_id, new_key_arg) ==
    /\ created
    /\ LET form_to_del == FindForm(forms, form_id)
           new_forms == FormsWithoutId(forms, form_id)
           new_key_form == IF new_key_arg # NoRef THEN new_key_arg ELSE key_form
           called == [Op("remove_form", "ok", FALSE) EXCEPT
                         !.form_id = form_id, !.key_given = (new_key_arg # NoRef),
                         !.new_key_form = new_key_form, !.forms_before = forms,
                         !.form_to_del = form_to_del, !.new_forms = new_forms]
           fail(c, msg) ==
               /\ last' = [c EXCEPT !.outcome = msg]
               /\ UNCHANGED <<forms, key_form, displays, sorts>>
       IN IF form_to_del = NoForm THEN fail(called, NotFoundMsg)
          ELSE IF IsLastForm(new_forms) THEN fail(called, LastFormMsg)
          ELSE
            LET was_key == is_referenced_by(form_to_del, key_form)
                vk == NewKeyForm(form_to_del, new_forms, new_key_form)
                vd == _remove_form_from_displays(form_to_del, new_forms, displays)
                vs == _remove_form_from_sorts(form_to_del, new_forms, sorts)
                checked == [called EXCEPT !.was_key = was_key]
                cascaded ==
                    [checked EXCEPT
                        !.left_displays = StripDisplays(form_to_del, displays)]
                cascaded2 ==
                    [cascaded EXCEPT
                        !.left_sorts = StripSorts(form_to_del, sorts)]
            IN IF ~vk.ok THEN fail(checked, vk.err)
               ELSE IF ~vd.ok THEN fail(cascaded, vd.err)
               ELSE IF ~vs.ok
                    THEN fail(IF sorts.is_none THEN cascaded ELSE cascaded2, vs.err)
               ELSE /\ _alter_properties(SomeList(new_forms), vk.value,
                                         vd.value, vs.value)
                    /\ last' = [cascaded2 EXCEPT !.submitted = TRUE]
    /\ UNCHANGED <<created, call, ret, relationships>>

RemoveFormCall ==
    /\ created
    /\ Idle
    /\ \E form_id \in FormIds, new_key_arg \in OpKeys :
        RemoveForm(form_id, new_key_arg)

\* ----------------------------------------------------- the attribute spec
CreateCall ==
    /\ ~created
    /\ Idle
    /\ \E f \in AscForms, k \in OpKeys,
          d \in {NoDisplays} \cup OpDisplays, s \in {NoSorts} \cup OpSorts :
          Create(f, k, d, s)

\* the call returns or raises to the caller; the attribute stays as the
\* operation left it
Return ==
    /\ ~Idle
    /\ last' = Op("none", "ok", FALSE)
    /\ UNCHANGED <<created, forms, key_form, displays, sorts, call, ret, relationships>>

Next ==
    \/ CreateCall
    \/ AlterCall
    \/ \E form \in FormSet : AddForm(form)
    \/ AddFormNothing
    \/ RemoveFormCall
    \/ Return

Spec == Init /\ [][Next]_vars

\* ------------------------------------------------- the validators, called
\* directly with arguments drawn from the bounded input sets
KeyFormCall(k, f, m) ==
    [NoCall EXCEPT !.fn = "validate_key_form", !.key_form = k, !.forms = f,
                   !.error_msg = m]

DisplaysCall(d, f) ==
    [NoCall EXCEPT !.fn = "validate_displays", !.displays = d, !.forms = f]

SortsCall(s, f) ==
    [NoCall EXCEPT !.fn = "validate_sorts", !.sorts = s, !.forms = f]

ValidatorInit ==
    /\ created = FALSE
    /\ forms = <<>>
    /\ key_form = NoRef
    /\ displays = NoDisplays
    /\ sorts = NoSorts
    /\ relationships = <<>>
    /\ last = Op("none", "ok", FALSE)
    /\ \/ \E k \in KeyInputs \cup BothRefs, f \in FormLists, m \in {"", KeyFormDelMsg} :
              call = KeyFormCall(k, f, m)
       \/ \E d \in DisplaysInputs, f \in FormLists : call = DisplaysCall(d, f)
       \/ \E s \in SortsInputs, f \in FormLists : call = SortsCall(s, f)
    /\ ret = Pending

CallValidateKeyForm ==
    /\ call.fn = "validate_key_form"
    /\ ret = Pending
    /\ ret' = validate_key_form(call.key_form, call.forms, call.error_msg)
    /\ UNCHANGED <<created, forms, key_form, displays, sorts, last, call, relationships>>

CallValidateDisplays ==
    /\ call.fn = "validate_displays"
    /\ ret = Pending
    /\ ret' = validate_displays(call.displays, call.forms)
    /\ UNCHANGED <<created, forms, key_form, displays, sorts, last, call, relationships>>

CallValidateSorts ==
    /\ call.fn = "validate_sorts"
    /\ ret = Pending
    /\ ret' = validate_sorts(call.sorts, call.forms)
    /\ UNCHANGED <<created, forms, key_form, displays, sorts, last, call, relationships>>

ValidatorNext ==
    \/ CallValidateKeyForm
    \/ CallValidateDisplays
    \/ CallValidateSorts

ValidatorSpec == ValidatorInit /\ [][ValidatorNext]_vars

Returned(fn) == call.fn = fn /\ ret.err # "pending"

\* ---------------------------------------------- relationship management
\* SchemaObjectReference of an attribute, compared by value
AttrRef(object_id) == [object_id |-> object_id]

\* SchemaObjectReference.create_from(self)
SelfRef == AttrRef("self")

\* the attributes a relationship can name: this one and two others
RelRefs == {SelfRef, AttrRef("x"), AttrRef("y")}

\* child=None, joint_child=None, table=None
NoChild == AttrRef("none")

NoJoint == <<>>

NoTable == "none"

\* Relationship(relationship_type, table, parent, child, joint_child): it
\* has a child or a joint_child, never both
Relationship(relationship_type, table, parent, child, joint_child) ==
    [relationship_type |-> relationship_type, table |-> table, parent |-> parent,
     child |-> child, joint_child |-> joint_child]

\* hasattr(rel, 'child') / hasattr(rel, 'joint_child')
HasChild(rel) == rel.child # NoChild

HasJointChild(rel) == rel.joint_child # NoJoint

\* a record of one relationship operation
RelOp(name, child, joint_child, parent, table) ==
    [op |-> name, outcome |-> "ok", submitted |-> FALSE,
     child |-> child, joint_child |-> joint_child, parent |-> parent,
     table |-> table, rels_before |-> relationships, found |-> None,
     sent |-> <<>>]

EitherMsg == "Please specify either child or joint_child parameter."

\* the outcome of exception_handler(msg, exception_type=Warning)
Warned == "warning"

\* "rel != relationship" compares relationships by value
RECURSIVE WithoutRel(_, _)
WithoutRel(rels, relationship) ==
    IF rels = <<>> THEN <<>>
    ELSE IF Head(rels) = relationship THEN WithoutRel(Tail(rels), relationship)
         ELSE <<Head(rels)>> \o WithoutRel(Tail(rels), relationship)

UpdatedRelationships_only_new(relationship, add) ==
    IF add THEN <<relationship>> ELSE WithoutRel(relationships, relationship)

\* the list _update_relationships builds from a copy of the attribute's own
\* list
UpdatedRelationships(relationship, add) ==
    IF add THEN Append(relationships, relationship)
    ELSE WithoutRel(relationships, relationship)

\* Attribute._update_relationships: the whole list goes into one
\* _alter_properties(relationships=...), and the attribute takes it over
_update_relationships(relationship, add) ==
    relationships' = UpdatedRelationships(relationship, add)

\* the first index whose relationship satisfies the test of a loop, or None
FirstRel(Test(_)) ==
    IF \E i \in DOMAIN relationships : Test(relationships[i])
    THEN CHOOSE i \in DOMAIN relationships :
            /\ Test(relationships[i])
            /\ \A j \in DOMAIN relationships : j < i => ~Test(relationships[j])
    ELSE None

BothOrNeither_only_neither(child, joint_child) ==
    child = NoChild /\ joint_child = NoJoint

\* (child and joint_child) or (not child and not joint_child)
BothOrNeither(child, joint_child) ==
    \/ child # NoChild /\ joint_child # NoJoint
    \/ child = NoChild /\ joint_child = NoJoint

ChildExists_never(child, joint_child) == None

\* the loops of add_child / remove_child: the first relationship with the
\* same child, or with the same joint_child list
ChildExists(child, joint_child) ==
    IF child # NoChild
    THEN LET SameChild(rel) == HasChild(rel) /\ rel.child = child
         IN FirstRel(SameChild)
    ELSE LET SameJoint(rel) == HasJointChild(rel) /\ rel.joint_child = joint_child
         IN FirstRel(SameJoint)

\* Attribute.add_child(child, joint_child, relationship_type, table); the
\* attribute lookup table is "lookup"
AddChild(child, joint_child, table) ==
    LET called == RelOp("add_child", child, joint_child, NoChild, table)
        found == ChildExists(child, joint_child)
    IN /\ IF BothOrNeither(child, joint_child)
          THEN /\ last' = [called EXCEPT !.outcome = EitherMsg]
               /\ UNCHANGED relationships
          ELSE IF found # None
          THEN /\ last' = [called EXCEPT !.outcome = Warned, !.found = found]
               /\ UNCHANGED relationships
          ELSE /\ Len(relationships) < MaxRels
               /\ _update_relationships(
                      Relationship("one_to_many",
                                   IF table # NoTable THEN table ELSE "lookup",
                                   SelfRef, child, joint_child), TRUE)
               /\ last' = [called EXCEPT !.submitted = TRUE,
                                          !.sent = relationships']
       /\ UNCHANGED <<created, forms, key_form, displays, sorts, call, ret>>

ParentExists_or_self(parent) ==
    LET SameParent(rel) == \/ rel.parent.object_id = parent.object_id
                           \/ parent.object_id = SelfRef.object_id
    IN FirstRel(SameParent)

ParentExists_never(parent) == None

\* the loop of add_parent: the first relationship whose parent has the id
ParentExists(parent) ==
    LET SameParent(rel) == rel.parent.object_id = parent.object_id
    IN FirstRel(SameParent)

\* Attribute.add_parent(parent, relationship_type, table)
AddParent(parent, table) ==
    LET called == RelOp("add_parent", NoChild, NoJoint, parent, table)
        found == ParentExists(parent)
    IN /\ IF found # None
          THEN /\ last' = [called EXCEPT !.outcome = Warned, !.found = found]
               /\ UNCHANGED relationships
          ELSE /\ Len(relationships) < MaxRels
               /\ _update_relationships(
                      Relationship("one_to_many",
                                   IF table # NoTable THEN table ELSE "lookup",
                                   parent, SelfRef, NoJoint), TRUE)
               /\ last' = [called EXCEPT !.submitted = TRUE,
                                          !.sent = relationships']
       /\ UNCHANGED <<created, forms, key_form, displays, sorts, call, ret>>

\* Attribute.remove_child(child, joint_child)
RemoveChild(child, joint_child) ==
    LET called == RelOp("remove_child", child, joint_child, NoChild, NoTable)
        found == ChildExists(child, joint_child)
    IN /\ IF BothOrNeither(child, joint_child)
          THEN /\ last' = [called EXCEPT !.outcome = EitherMsg]
               /\ UNCHANGED relationships
          ELSE IF found # None
          THEN /\ _update_relationships(relationships[found], FALSE)
               /\ last' = [called EXCEPT !.submitted = TRUE, !.found = found,
                                          !.sent = relationships']
          ELSE /\ last' = [called EXCEPT !.outcome = Warned]
               /\ UNCHANGED relationships
       /\ UNCHANGED <<created, forms, key_form, displays, sorts, call, ret>>

ParentToRemove_self_too(parent) == ParentExists(parent)

\* the loop of remove_parent: the parent has the id and is not the
\* attribute itself
ParentToRemove(parent) ==
    LET SameParent(rel) ==
            /\ rel.parent.object_id = parent.object_id
            /\ parent.object_id # SelfRef.object_id
    IN FirstRel(SameParent)

\* Attribute.remove_parent(parent)
RemoveParent(parent) ==
    LET called == RelOp("remove_parent", NoChild, NoJoint, parent, NoTable)
        found == ParentToRemove(parent)
    IN /\ IF found # None
          THEN /\ _update_relationships(relationships[found], FALSE)
               /\ last' = [called EXCEPT !.submitted = TRUE, !.found = found,
                                          !.sent = relationships']
          ELSE /\ last' = [called EXCEPT !.outcome = Warned]
               /\ UNCHANGED relationships
       /\ UNCHANGED <<created, forms, key_form, displays, sorts, call, ret>>

\* arguments of the relationship operations
ChildArgs == {NoChild} \cup RelRefs

JointArgs == {NoJoint, <<AttrRef("x"), AttrRef("y")>>, <<AttrRef("y"), AttrRef("x")>>}

TableArgs == {NoTable, "other"}

AddChildCall ==
    /\ Idle
    /\ \E child \in ChildArgs, joint_child \in JointArgs, table \in TableArgs :
          /\ joint_child # NoJoint => table = NoTable
          /\ AddChild(child, joint_child, table)

AddParentCall ==
    /\ Idle
    /\ \E parent \in RelRefs : AddParent(parent, NoTable)

RemoveChildCall ==
    /\ Idle
    /\ \E child \in ChildArgs, joint_child \in JointArgs :
          RemoveChild(child, joint_child)

RemoveParentCall ==
    /\ Idle
    /\ \E parent \in RelRefs : RemoveParent(parent)

\* an attribute that exists, with one form and no relationships yet
RelInit ==
    /\ created = TRUE
    /\ forms = <<Form(1)>>
    /\ key_form = NameRef(1)
    /\ displays = MkDisplays(<<IdRef(1)>>, <<IdRef(1)>>)
    /\ sorts = NoSorts
    /\ relationships = <<>>
    /\ last = Op("none", "ok", FALSE)
    /\ call = NoCall
    /\ ret = Pending

RelNext ==
    \/ AddChildCall
    \/ AddParentCall
    \/ RemoveChildCall
    \/ RemoveParentCall
    \/ Return

RelSpec == RelInit /\ [][RelNext]_vars

\* ------------------------------------------------ the form mutators:
\* alter_form and the fact-expression mutators. Here a form carries what the
\* mutators change: an alias and its fact expressions
FactExpression(id, text) == [id |-> id, text |-> text]

FormWith(i, alias, expressions) ==
    [id |-> i, name |-> 0 - i, alias |-> alias, expressions |-> expressions]

HasExpression(form, fact_expression_id) ==
    \E j \in DOMAIN form.expressions : form.expressions[j].id = fact_expression_id

\* AttributeForm.local_alter(alias=...)
local_alter(form, alias) == [form EXCEPT !.alias = alias]

\* AttributeForm._alter_expression(fact_expression_id, expression=...)
_alter_expression(form, fact_expression_id, text) ==
    [form EXCEPT !.expressions =
        [j \in DOMAIN @ |-> IF @[j].id = fact_expression_id
                            THEN FactExpression(@[j].id, text)
                            ELSE @[j]]]

\* AttributeForm._add_fact_expression(expression)
_add_fact_expression(form, expression) ==
    [form EXCEPT !.expressions = Append(@, expression)]

\* AttributeForm._remove_fact_expression(fact_expression_id)
_remove_fact_expression(form, fact_expression_id) ==
    [form EXCEPT !.expressions =
        SelectSeq(@, LAMBDA e : e.id # fact_expression_id)]

\* func(form, **params) for the four functions handed to
\* __alter_form_with_id
Apply(func, form, params) ==
    CASE func = "local_alter" -> local_alter(form, params)
      [] func = "_alter_expression" -> _alter_expression(form, params.id, params.text)
      [] func = "_add_fact_expression" -> _add_fact_expression(form, params)
      [] func = "_remove_fact_expression" -> _remove_fact_expression(form, params)

alter_form_with_id_every_form(name, form_id, func, params) ==
    LET is_form_found == \E i \in DOMAIN forms : forms[i].id = form_id
        altered == [i \in DOMAIN forms |-> Apply(func, forms[i], params)]
        called == [Op(name, "ok", FALSE) EXCEPT
                      !.form_id = form_id, !.arg = params, !.forms_before = forms]
    IN IF ~is_form_found
       THEN /\ last' = [called EXCEPT !.outcome = "ValueError"]
            /\ UNCHANGED forms
       ELSE /\ forms' = altered
            /\ last' = [called EXCEPT !.submitted = TRUE, !.new_forms = altered]

\* Attribute.__alter_form_with_id: func is applied to the forms with the
\* given id, every form is kept in place, and the whole list is published;
\* without such a form nothing was applied and it raises
alter_form_with_id(name, form_id, func, params) ==
    LET is_form_found == \E i \in DOMAIN forms : forms[i].id = form_id
        altered == [i \in DOMAIN forms |->
                       IF forms[i].id = form_id
                       THEN Apply(func, forms[i], params)
                       ELSE forms[i]]
        called == [Op(name, "ok", FALSE) EXCEPT
                      !.form_id = form_id, !.arg = params, !.forms_before = forms]
    IN IF ~is_form_found
       THEN /\ last' = [called EXCEPT !.outcome = "ValueError"]
            /\ UNCHANGED forms
       ELSE /\ forms' = altered
            /\ last' = [called EXCEPT !.submitted = TRUE, !.new_forms = altered]

alter_form(form_id, alias) ==
    alter_form_with_id("alter_form", form_id, "local_alter", alias)

alter_fact_expression(form_id, fact_expression_id, text) ==
    alter_form_with_id("alter_fact_expression", form_id, "_alter_expression",
                       FactExpression(fact_expression_id, text))

add_fact_expression(form_id, expression) ==
    alter_form_with_id("add_fact_expression", form_id, "_add_fact_expression",
                       expression)

remove_fact_expression(form_id, fact_expression_id) ==
    alter_form_with_id("remove_fact_expression", form_id,
                       "_remove_fact_expression", fact_expression_id)

\* the arguments explored: the id of the first form, of the last form, or
\* of no form; two aliases, two expression ids, two expression texts
FormIdArgs == {1, NumForms, None}
Aliases == {"a", "b"}
ExpressionIds == {"e1", "e2"}
Texts == {"t", "u"}

\* the forms with the given id all satisfy Test
FormsWithId(form_id, Test(_)) ==
    \A i \in DOMAIN forms : forms[i].id = form_id => Test(forms[i])

AlterFormCall ==
    /\ Idle
    /\ \E form_id \in FormIdArgs, alias \in Aliases : alter_form(form_id, alias)
    /\ UNCHANGED <<created, key_form, displays, sorts, relationships, call, ret>>

\* the expression altered is one of the form
AlterFactExpressionCall ==
    /\ Idle
    /\ \E form_id \in FormIdArgs, id \in ExpressionIds, text \in Texts :
          /\ FormsWithId(form_id, LAMBDA form : HasExpression(form, id))
          /\ alter_fact_expression(form_id, id, text)
    /\ UNCHANGED <<created, key_form, displays, sorts, relationships, call, ret>>

\* the expression added is not yet one of the form
AddFactExpressionCall ==
    /\ Idle
    /\ \E form_id \in FormIdArgs, id \in ExpressionIds, text \in Texts :
          /\ FormsWithId(form_id, LAMBDA form : ~HasExpression(form, id))
          /\ add_fact_expression(form_id, FactExpression(id, text))
    /\ UNCHANGED <<created, key_form, displays, sorts, relationships, call, ret>>

\* the expression removed is one of the form and not its only one
RemoveFactExpressionCall ==
    /\ Idle
    /\ \E form_id \in FormIdArgs, id \in ExpressionIds :
          /\ FormsWithId(form_id, LAMBDA form : /\ HasExpression(form, id)
                                                /\ Len(form.expressions) > 1)
          /\ remove_fact_expression(form_id, id)
    /\ UNCHANGED <<created, key_form, displays, sorts, relationships, call, ret>>

\* an attribute that exists, with two forms of one expression each
FormInit ==
    /\ created = TRUE
    /\ forms = <<FormWith(1, "a", <<FactExpression("e1", "t")>>),
                 FormWith(NumForms, "a", <<FactExpression("e1", "t")>>)>>
    /\ key_form = NameRef(1)
    /\ displays = MkDisplays(<<IdRef(1)>>, <<IdRef(1)>>)
    /\ sorts = NoSorts
    /\ relationships = <<>>
    /\ last = Op("none", "ok", FALSE)
    /\ call = NoCall
    /\ ret = Pending

FormNext ==
    \/ AlterFormCall
    \/ AlterFactExpressionCall
    \/ AddFactExpressionCall
    \/ RemoveFactExpressionCall
    \/ Return

FormSpec == FormInit /\ [][FormNext]_vars

\* ------------------------------------------------ the attribute with its
\* forms at either level of detail: an attribute built by create has forms
\* of an id and a name and takes create / alter / add_form / remove_form,
\* one whose forms carry an alias and expressions takes the form mutators
PlainForms == \A i \in DOMAIN forms : DOMAIN forms[i] = {"id", "name"}

AttributeInit == Init \/ FormInit

AttributeNext ==
    \/ PlainForms /\ Next
    \/ ~PlainForms /\ FormNext

AttributeSpec == AttributeInit /\ [][AttributeNext]_vars

\* ------------------------------------------------ create with hidden and
\* the batch operations create_many / update_many
\* AttributeData: hidden is "none", "false" or "true"
AttributeData(n, f, k, d, s, h, e) ==
    [name |-> n, forms |-> f, key_form |-> k, displays |-> d, sorts |-> s,
     hidden |-> h, show_expression_as |-> e]

\* what an operation of this part returned or raised, and the calls it made
\* to the attributes API, in order
Returns(v, calls) == [ok |-> TRUE, err |-> "", value |-> v, api |-> calls]

Raises(e) == [ok |-> FALSE, err |-> e, value |-> <<>>, api |-> <<>>]

NothingYet == [ok |-> FALSE, err |-> "pending", value |-> <<>>, api |-> <<>>]

_attribute_data_to_create_attribute_dto_unvalidated(attribute_data) ==
    Ok([name |-> attribute_data.name,
        body |-> [forms |-> attribute_data.forms,
                  key_form |-> attribute_data.key_form,
                  displays |-> attribute_data.displays,
                  sorts |-> attribute_data.sorts],
        show_expression_as |-> attribute_data.show_expression_as])

\* CreateAttributeDto(body, show_expression_as); name is the name in the
\* information of the body
_attribute_data_to_create_attribute_dto(attribute_data) ==
    LET body == _get_create_body(attribute_data.forms, attribute_data.key_form,
                                 attribute_data.displays, attribute_data.sorts)
    IN IF body.ok
       THEN Ok([name |-> attribute_data.name, body |-> body.value,
                show_expression_as |-> attribute_data.show_expression_as])
       ELSE body

\* UpdateAttributeDto(id, body, show_expression_as)
_attribute_data_to_update_attribute_dto(attribute, attribute_data) ==
    LET body == _get_create_body(attribute_data.forms, attribute_data.key_form,
                                 attribute_data.displays, attribute_data.sorts)
    IN IF body.ok
       THEN Ok([id |-> attribute.id, name |-> attribute_data.name,
                body |-> body.value,
                show_expression_as |-> attribute_data.show_expression_as])
       ELSE body

\* the list comprehensions that build the dtos, one result per record
CreateDtos(attributes_data) ==
    [i \in DOMAIN attributes_data |->
        _attribute_data_to_create_attribute_dto(attributes_data[i])]

\* zip(attributes_list, attributes_data) stops at the shorter list
Shorter(a, b) == IF Len(a) < Len(b) THEN Len(a) ELSE Len(b)

UpdateDtos(attributes_list, attributes_data) ==
    [i \in 1..Shorter(attributes_list, attributes_data) |->
        _attribute_data_to_update_attribute_dto(attributes_list[i],
                                                attributes_data[i])]

\* a comprehension raises at the first record whose dto can not be built
FirstRaised(results) ==
    IF \A i \in DOMAIN results : results[i].ok THEN None
    ELSE CHOOSE i \in DOMAIN results :
            ~results[i].ok /\ \A j \in DOMAIN results : j < i => results[j].ok

Values(results) == [i \in DOMAIN results |-> results[i].value]

\* the attributes API: every dto is answered with the attribute it
\* describes, in the order of the dtos; a new attribute gets a fresh id and
\* is not hidden
Response(id, dto) ==
    [id |-> id, name |-> dto.name, forms |-> dto.body.forms,
     key_form |-> dto.body.key_form, displays |-> dto.body.displays,
     sorts |-> dto.body.sorts, hidden |-> FALSE]

NewId(i) == [created |-> i]

create_attributes(dtos) == [i \in DOMAIN dtos |-> Response(NewId(i), dtos[i])]

update_attributes(dtos) == [i \in DOMAIN dtos |-> Response(dtos[i].id, dtos[i])]

\* cls.from_dict(source={**response, 'show_expression_as': ...})
from_dict(response, show_expression_as) ==
    [id |-> response.id, name |-> response.name, forms |-> response.forms,
     key_form |-> response.key_form, displays |-> response.displays,
     sorts |-> response.sorts, hidden |-> response.hidden,
     show_expression_as |-> show_expression_as]

HiddenRequested_not_none(h) == h # "none"

\* "if hidden:" - None and False are both false
HiddenRequested(h) == h = "true"

\* attribute.alter(hidden=True): nothing else is given, so nothing is
\* validated; hidden is submitted unless the attribute has that value
AlterHidden(attribute) ==
    IF attribute.hidden THEN attribute ELSE [attribute EXCEPT !.hidden = TRUE]

AlterHiddenCall(attribute) ==
    IF attribute.hidden THEN <<>>
    ELSE <<[api |-> "update_attribute", id |-> attribute.id, hidden |-> TRUE]>>

\* Attribute.create(..., hidden) with the fields of an AttributeData
create(attribute_data) ==
    LET body == _get_create_body(attribute_data.forms, attribute_data.key_form,
                                 attribute_data.displays, attribute_data.sorts)
        dto == [name |-> attribute_data.name, body |-> body.value,
                show_expression_as |-> attribute_data.show_expression_as]
        attribute == from_dict(Response(NewId(1), dto),
                               attribute_data.show_expression_as)
        posted == <<[api |-> "create_attribute", dtos |-> <<dto>>]>>
    IN IF ~body.ok THEN Raises(body.err)
       ELSE IF HiddenRequested(attribute_data.hidden)
            THEN Returns(<<AlterHidden(attribute)>>,
                         posted \o AlterHiddenCall(attribute))
            ELSE Returns(<<attribute>>, posted)

\* attributes_data_dict[name]: the last record with that name
DataNamed(attributes_data, name) ==
    attributes_data[CHOOSE i \in DOMAIN attributes_data :
        /\ attributes_data[i].name = name
        /\ \A j \in DOMAIN attributes_data :
               j > i => attributes_data[j].name # name]

\* the loop over the returned attributes that alters the hidden ones
HiddenLoop(attributes, attributes_data) ==
    [i \in DOMAIN attributes |->
        IF HiddenRequested(DataNamed(attributes_data, attributes[i].name).hidden)
        THEN AlterHidden(attributes[i]) ELSE attributes[i]]

RECURSIVE HiddenLoopCalls(_, _)
HiddenLoopCalls(attributes, attributes_data) ==
    IF attributes = <<>> THEN <<>>
    ELSE (IF HiddenRequested(DataNamed(attributes_data, Head(attributes).name).hidden)
          THEN AlterHiddenCall(Head(attributes)) ELSE <<>>)
         \o HiddenLoopCalls(Tail(attributes), attributes_data)

create_many_first_format(attributes_data) ==
    LET results == CreateDtos(attributes_data)
        dtos == Values(results)
        responses == create_attributes(dtos)
        created_attributes ==
            [i \in DOMAIN responses |->
                from_dict(responses[i], attributes_data[1].show_expression_as)]
    IN IF FirstRaised(results) # None
       THEN Raises(results[FirstRaised(results)].err)
       ELSE Returns(HiddenLoop(created_attributes, attributes_data),
                    <<[api |-> "create_attributes", dtos |-> dtos]>>
                    \o HiddenLoopCalls(created_attributes, attributes_data))

\* Attribute.create_many
create_many(attributes_data) ==
    LET results == CreateDtos(attributes_data)
        dtos == Values(results)
        responses == create_attributes(dtos)
        created_attributes ==
            [i \in DOMAIN responses |->
                from_dict(responses[i], attributes_data[i].show_expression_as)]
    IN IF FirstRaised(results) # None
       THEN Raises(results[FirstRaised(results)].err)
       ELSE Returns(HiddenLoop(created_attributes, attributes_data),
                    <<[api |-> "create_attributes", dtos |-> dtos]>>
                    \o HiddenLoopCalls(created_attributes, attributes_data))

LengthMsg == "Length of attributes list must match length of attributes_data list"

update_many_no_length_check(attributes_list, attributes_data) ==
    LET results == UpdateDtos(attributes_list, attributes_data)
        dtos == Values(results)
        responses == update_attributes(dtos)
        updated_attributes ==
            [i \in DOMAIN responses |->
                from_dict(responses[i], attributes_data[i].show_expression_as)]
    IN IF FirstRaised(results) # None
       THEN Raises(results[FirstRaised(results)].err)
       ELSE Returns(HiddenLoop(updated_attributes, attributes_data),
                    <<[api |-> "update_attributes", dtos |-> dtos]>>
                    \o HiddenLoopCalls(updated_attributes, attributes_data))

\* Attribute.update_many
update_many(attributes_list, attributes_data) ==
    LET results == UpdateDtos(attributes_list, attributes_data)
        dtos == Values(results)
        responses == update_attributes(dtos)
        updated_attributes ==
            [i \in DOMAIN responses |->
                from_dict(responses[i], attributes_data[i].show_expression_as)]
    IN IF Len(attributes_list) # Len(attributes_data) THEN Raises(LengthMsg)
       ELSE IF FirstRaised(results) # None
       THEN Raises(results[FirstRaised(results)].err)
       ELSE Returns(HiddenLoop(updated_attributes, attributes_data),
                    <<[api |-> "update_attributes", dtos |-> dtos]>>
                    \o HiddenLoopCalls(updated_attributes, attributes_data))

\* ---------------------------------------------------- the batch spec: one
\* call of create, create_many or update_many with arguments drawn from the
\* bounded input sets
\* the records of a single create: any forms / key_form / displays / sorts
\* of the attribute operations, any hidden
CreateData ==
    {AttributeData("n1", f, k, d, s, h, "tree") :
        f \in AscForms, k \in OpKeys, d \in {NoDisplays} \cup OpDisplays,
        s \in {NoSorts} \cup OpSorts, h \in {"none", "false", "true"}}

\* the records of a batch: one or two forms with or without a key form (two
\* forms without a key form are invalid), two names, two expression formats
BatchData ==
    {AttributeData(n, f, k, NoDisplays, NoSorts, h, e) :
        n \in {"n1", "n2"}, f \in {<<Form(1)>>, <<Form(1), Form(NumForms)>>},
        k \in {NoRef, NameRef(NumForms)}, h \in {"false", "true"},
        e \in {"tree", "tokens"}}

\* the attributes given to update_many: the first n of a list of attributes
\* with different ids
Attributes(n) == [i \in 1..n |-> [id |-> [existing |-> i]]]

CreateMethodCall(data) ==
    [fn |-> "create", attributes_list |-> <<>>, attributes_data |-> <<data>>]

CreateManyCall(data) ==
    [fn |-> "create_many", attributes_list |-> <<>>, attributes_data |-> data]

UpdateManyCall(attrs, data) ==
    [fn |-> "update_many", attributes_list |-> attrs, attributes_data |-> data]

BatchInit ==
    /\ created = FALSE
    /\ forms = <<>>
    /\ key_form = NoRef
    /\ displays = NoDisplays
    /\ sorts = NoSorts
    /\ relationships = <<>>
    /\ last = Op("none", "ok", FALSE)
    /\ \/ \E data \in CreateData : call = CreateMethodCall(data)
       \/ \E data \in SeqsUpTo(BatchData, MaxBatch) : call = CreateManyCall(data)
       \/ \E n \in 0..MaxBatch, data \in SeqsUpTo(BatchData, MaxBatch) :
              call = UpdateManyCall(Attributes(n), data)
    /\ ret = NothingYet

CallCreate ==
    /\ call.fn = "create"
    /\ ret = NothingYet
    /\ ret' = create(call.attributes_data[1])
    /\ UNCHANGED <<created, forms, key_form, displays, sorts, last, call, relationships>>

CallCreateMany ==
    /\ call.fn = "create_many"
    /\ ret = NothingYet
    /\ ret' = create_many(call.attributes_data)
    /\ UNCHANGED <<created, forms, key_form, displays, sorts, last, call, relationships>>

CallUpdateMany ==
    /\ call.fn = "update_many"
    /\ ret = NothingYet
    /\ ret' = update_many(call.attributes_list, call.attributes_data)
    /\ UNCHANGED <<created, forms, key_form, displays, sorts, last, call, relationships>>

BatchNext ==
    \/ CallCreate
    \/ CallCreateMany
    \/ CallUpdateMany

BatchSpec == BatchInit /\ [][BatchNext]_vars

\* ------------------------------------------------ subscriptions: the
\* SubscriptionManager, the dispatcher and CacheUpdateSubscription
\* Delivery.DeliveryMode
DeliveryModes ==
    {"EMAIL", "FILE", "PRINTER", "HISTORY_LIST", "CACHE", "MOBILE", "FTP"}

\* a subscription as the server holds it; by_id says that the caller names
\* it by its id instead of passing the object
SubscriptionArg(id, mode, by_id) == [id |-> id, mode |-> mode, by_id |-> by_id]

\* Subscription(connection, id, project_id): the object is fetched
AsSubscription(sub) == [id |-> sub.id, mode |-> sub.mode]

\* what a manager operation returned, its server calls in order and the
\* warnings it issued in order
Done(v, calls, warnings) ==
    [ok |-> TRUE, err |-> "", value |-> v, api |-> calls, warnings |-> warnings]

ExecutableModes_with_cache == {"EMAIL", "FILE", "HISTORY_LIST", "FTP", "CACHE"}

\* the modes SubscriptionManager.execute runs
ExecutableModes == {"EMAIL", "FILE", "HISTORY_LIST", "FTP"}

\* the loop of SubscriptionManager.execute over the subscriptions left
RECURSIVE ExecuteLoop(_, _)
ExecuteLoop(subscriptions, done) ==
    IF subscriptions = <<>> THEN done
    ELSE LET subscription == AsSubscription(Head(subscriptions))
         IN IF subscription.mode \in ExecutableModes
            THEN ExecuteLoop(Tail(subscriptions),
                     Done(None,
                          Append(done.api, [api |-> "execute", id |-> subscription.id]),
                          done.warnings))
            ELSE ExecuteLoop(Tail(subscriptions),
                     Done(None, done.api,
                          Append(done.warnings,
                                 [id |-> subscription.id, mode |-> subscription.mode])))

\* SubscriptionManager.execute
execute(subscriptions, verbose) ==
    IF subscriptions = <<>> /\ verbose THEN Done(None, <<>>, <<>>)
    ELSE ExecuteLoop(subscriptions, Done(None, <<>>, <<>>))

DeleteLoop_stops_at_failure(subscriptions, deletable) ==
    LET failed == {i \in DOMAIN subscriptions : subscriptions[i] \notin deletable}
        last_tried == IF failed = {} THEN Len(subscriptions)
                      ELSE CHOOSE i \in failed : \A j \in failed : i <= j
    IN [i \in 1..last_tried |->
           [api |-> "remove_subscription", id |-> subscriptions[i],
            ok |-> subscriptions[i] \in deletable
                   /\ \A j \in 1..(i - 1) : subscriptions[j] # subscriptions[i]]]

\* the generator of SubscriptionManager.delete: _delete_subscription for
\* every subscription, in order. The server removes a subscription it
\* holds and can delete, and answers not ok otherwise (a second removal of
\* the same subscription included)
DeleteLoop(subscriptions, deletable) ==
    [i \in DOMAIN subscriptions |->
        [api |-> "remove_subscription", id |-> subscriptions[i],
         ok |-> subscriptions[i] \in deletable
                /\ \A j \in 1..(i - 1) : subscriptions[j] # subscriptions[i]]]

\* remove_subscription(..., exception_type=UserWarning) warns for every
\* response that is not ok
DeleteWarnings(calls) ==
    LET failed == SelectSeq(calls, LAMBDA c : ~c.ok)
    IN [i \in DOMAIN failed |-> [id |-> failed[i].id, mode |-> None]]

\* sum(1 for subscription in subscriptions if ...)
Succeeded(calls) == Len(SelectSeq(calls, LAMBDA c : c.ok))

\* SubscriptionManager.delete; answer is what input() returns
delete(subscriptions, force, answer, deletable) ==
    LET calls == DeleteLoop(subscriptions, deletable)
    IN IF subscriptions = <<>> THEN Done(FALSE, <<>>, <<>>)
       ELSE IF ~force /\ answer # "Y" THEN Done(FALSE, <<>>, <<>>)
       ELSE Done(Succeeded(calls) = Len(subscriptions), calls, DeleteWarnings(calls))

\* the ids a caller passes and the answers typed at the prompt
SubscriptionIds == 1..MaxSubs
Answers == {"Y", "N", "y"}

DeleteCall(subscriptions, force, answer, deletable) ==
    [fn |-> "delete", subscriptions |-> subscriptions, force |-> force,
     answer |-> answer, deletable |-> deletable]

\* subscription_type_from_delivery_mode_dict
subscription_type_from_delivery_mode_dict ==
    [mode \in {"CACHE", "EMAIL", "FILE", "FTP", "HISTORY_LIST", "MOBILE"} |->
        CASE mode = "CACHE" -> "CacheUpdateSubscription"
          [] mode = "EMAIL" -> "EmailSubscription"
          [] mode = "FILE" -> "FileSubscription"
          [] mode = "FTP" -> "FTPSubscription"
          [] mode = "HISTORY_LIST" -> "HistoryListSubscription"
          [] mode = "MOBILE" -> "MobileSubscription"]

get_subscription_type_from_delivery_mode_cache_default(mode) ==
    IF mode \in DOMAIN subscription_type_from_delivery_mode_dict
    THEN subscription_type_from_delivery_mode_dict[mode]
    ELSE "CacheUpdateSubscription"

\* subscription_type_from_delivery_mode_dict.get(mode, Subscription)
get_subscription_type_from_delivery_mode(mode) ==
    IF mode \in DOMAIN subscription_type_from_delivery_mode_dict
    THEN subscription_type_from_delivery_mode_dict[mode]
    ELSE "Subscription"

\* dispatch_from_dict: DeliveryMode(value) raises ValueError for a value
\* that is no delivery mode; sub_type.from_dict builds the object
dispatch_from_dict(source) ==
    IF source.delivery.mode \notin DeliveryModes
    THEN [ok |-> FALSE, err |-> "ValueError", value |-> None, api |-> <<>>,
          warnings |-> <<>>]
    ELSE Done([type |-> get_subscription_type_from_delivery_mode(source.delivery.mode),
               source |-> source], <<>>, <<>>)

\* the payloads explored: every delivery mode and a value that is none
Payloads ==
    {[id |-> 1, delivery |-> [mode |-> m]] : m \in DeliveryModes \cup {"OTHER"}}

DispatchCall(source) == [fn |-> "dispatch_from_dict", source |-> source]

\* the lists of subscriptions explored: subscription i has id i
SubscriptionLists(n) ==
    [1..n -> {[mode |-> m, by_id |-> b] : m \in DeliveryModes, b \in BOOLEAN}]

WithIds(list) ==
    [i \in DOMAIN list |-> SubscriptionArg(i, list[i].mode, list[i].by_id)]

ExecuteCall(subscriptions, verbose) ==
    [fn |-> "execute", subscriptions |-> subscriptions, verbose |-> verbose]

\* ------------------------------------------- CacheUpdateSubscription
\* an optional argument: None (none = TRUE), or a value
Arg(none, value) == [none |-> none, value |-> value]

CacheType == {"RESERVED", "SHORTCUT", "SHORTCUTWITHBOOKMARK"}

ShortcutCacheFormat == {"RESERVED", "JSON", "BINARY", "BOTH"}

LibraryCacheTypes == {"WEB", "ANDROID", "IOS"}

StrOr_unset(x, default) == x.value

\* Python's `x or default` on an optional string: None and "" are falsy
StrOr(x, default) == IF x.none \/ x.value = "" THEN default ELSE x.value

\* Python's `x or default` on an optional list: None and [] are falsy
ListOr(x, default) == IF x.none \/ x.value = <<>> THEN default ELSE x.value

\* the keyword arguments the base class receives for the delivery and the
\* cache settings; every other argument is passed on as given
CacheKwargs(base, delivery, delivery_mode, cache_cache_type, cache_shortcut_cache_format, cache_library_cache_types) ==
    [base |-> base, delivery |-> delivery, delivery_mode |-> delivery_mode,
     cache_cache_type |-> cache_cache_type,
     cache_shortcut_cache_format |-> cache_shortcut_cache_format,
     cache_library_cache_types |-> cache_library_cache_types]

CacheUpdateSubscription_create(delivery, cache_cache_type, cache_shortcut_cache_format, cache_library_cache_types) ==
    Done(<<>>,
         <<CacheKwargs("_Subscription__create", delivery, "CACHE",
                       StrOr(cache_cache_type, "RESERVED"),
                       StrOr(cache_shortcut_cache_format, "RESERVED"),
                       ListOr(cache_library_cache_types, <<"WEB">>))>>,
         <<>>)

\* alter passes no delivery_mode
CacheUpdateSubscription_alter(delivery, cache_cache_type, cache_shortcut_cache_format, cache_library_cache_types) ==
    Done(<<>>,
         <<CacheKwargs("alter", delivery, "",
                       StrOr(cache_cache_type, "RESERVED"),
                       StrOr(cache_shortcut_cache_format, "RESERVED"),
                       ListOr(cache_library_cache_types, <<"WEB">>))>>,
         <<>>)

\* the calls explored: the delivery argument is None or a Delivery of any
\* mode, each cache field is None, empty or a value
CacheCalls(fn) ==
    {[fn |-> fn, delivery |-> delivery, cache_cache_type |-> t,
      cache_shortcut_cache_format |-> f, cache_library_cache_types |-> l] :
        delivery \in {Arg(TRUE, "")} \cup {Arg(FALSE, m) : m \in DeliveryModes},
        t \in {Arg(TRUE, ""), Arg(FALSE, "")} \cup {Arg(FALSE, v) : v \in CacheType},
        f \in {Arg(TRUE, ""), Arg(FALSE, "")}
                  \cup {Arg(FALSE, v) : v \in ShortcutCacheFormat},
        l \in {Arg(TRUE, <<>>), Arg(FALSE, <<>>), Arg(FALSE, <<"IOS", "WEB">>)}
                  \cup {Arg(FALSE, <<v>>) : v \in LibraryCacheTypes}}

SubInit ==
    /\ created = FALSE
    /\ forms = <<>>
    /\ key_form = NoRef
    /\ displays = NoDisplays
    /\ sorts = NoSorts
    /\ relationships = <<>>
    /\ last = Op("none", "ok", FALSE)
    /\ \/ \E n \in 0..MaxSubs : \E list \in SubscriptionLists(n) :
              \E verbose \in (IF n = 0 THEN BOOLEAN ELSE {FALSE}) :
                 call = ExecuteCall(WithIds(list), verbose)
       \/ \E source \in Payloads : call = DispatchCall(source)
       \/ \E n \in 0..MaxSubs : \E ids \in [1..n -> SubscriptionIds] :
              \E deletable \in SUBSET SubscriptionIds :
                 \/ call = DeleteCall(ids, TRUE, "", deletable)
                 \/ \E answer \in Answers :
                       call = DeleteCall(ids, FALSE, answer, deletable)
       \/ \E fn \in {"CacheUpdateSubscription.create", "CacheUpdateSubscription.alter"} :
              call \in CacheCalls(fn)
    /\ ret = NothingYet

CallExecute ==
    /\ call.fn = "execute"
    /\ ret = NothingYet
    /\ ret' = execute(call.subscriptions, call.verbose)
    /\ UNCHANGED <<created, forms, key_form, displays, sorts, last, call, relationships>>

CallDelete ==
    /\ call.fn = "delete"
    /\ ret = NothingYet
    /\ ret' = delete(call.subscriptions, call.force, call.answer, call.deletable)
    /\ UNCHANGED <<created, forms, key_form, displays, sorts, last, call, relationships>>

CallDispatch ==
    /\ call.fn = "dispatch_from_dict"
    /\ ret = NothingYet
    /\ ret' = dispatch_from_dict(call.source)
    /\ UNCHANGED <<created, forms, key_form, displays, sorts, last, call, relationships>>

CallCacheCreate ==
    /\ call.fn = "CacheUpdateSubscription.create"
    /\ ret = NothingYet
    /\ ret' = CacheUpdateSubscription_create(
                  call.delivery, call.cache_cache_type,
                  call.cache_shortcut_cache_format, call.cache_library_cache_types)
    /\ UNCHANGED <<created, forms, key_form, displays, sorts, last, call, relationships>>

CallCacheAlter ==
    /\ call.fn = "CacheUpdateSubscription.alter"
    /\ ret = NothingYet
    /\ ret' = CacheUpdateSubscription_alter(
                  call.delivery, call.cache_cache_type,
                  call.cache_shortcut_cache_format, call.cache_library_cache_types)
    /\ UNCHANGED <<created, forms, key_form, displays, sorts, last, call, relationships>>

SubNext ==
    \/ CallExecute
    \/ CallDelete
    \/ CallDispatch
    \/ CallCacheCreate
    \/ CallCacheAlter

SubSpec == SubInit /\ [][SubNext]_vars

\* ------------------------------------------------------------- properties
\* the reference matches the form by id or by name
Matches(form, ref) == form.id = ref.id \/ form.name = ref.name

Resolves(ref, fs) == \E i \in DOMAIN fs : Matches(fs[i], ref)

AllResolve(refs, fs) == \A k \in DOMAIN refs : Resolves(refs[k], fs)

SortsResolve(lst, fs) ==
    \A k \in DOMAIN lst.items : Resolves(lst.items[k].form, fs)

\* what the server holds after a submitted update is consistent
PayloadConsistent ==
    /\ Resolves(key_form, forms)
    /\ AllResolve(displays.report_displays, forms)
    /\ AllResolve(displays.browse_displays, forms)
    /\ SortsResolve(sorts.report_sorts, forms)
    /\ SortsResolve(sorts.browse_sorts, forms)

\* C1 (as claimed): after every submitted create / alter / add_form /
\* remove_form the key form references one of the submitted forms and every
\* reference of the displays and sorts resolves to one of them.
\* (An update that empties the forms is the subject of C2 and is left out.)
C1_Claim == (last.submitted /\ forms # <<>>) => PayloadConsistent

\* C2 (as claimed): the forms of an attribute are never empty; no operation
\* submits an empty forms collection.
C2_Claim == created => forms # <<>>

\* remove_form was called on a form that the current key form references,
\* with other forms remaining
RemovedKeyForm ==
    /\ last.op = "remove_form"
    /\ last.form_to_del # NoForm
    /\ last.new_forms # <<>>
    /\ last.was_key

C4_Claim ==
    (RemovedKeyForm /\ last.key_given /\ Resolves(last.new_key_form, last.new_forms))
        => /\ last.submitted
           /\ forms = last.new_forms
           /\ \A i \in DOMAIN forms :
                  Matches(forms[i], key_form) <=> Matches(forms[i], last.new_key_form)

\* C5 (as claimed): remove_form removes every reference to the deleted form
\* from the report and browse lists of displays and sorts, however often
\* the form was referenced.
C5_Claim ==
    last.op = "remove_form" =>
        /\ \A k \in DOMAIN last.left_displays.report_displays :
               ~Matches(last.form_to_del, last.left_displays.report_displays[k])
        /\ \A k \in DOMAIN last.left_displays.browse_displays :
               ~Matches(last.form_to_del, last.left_displays.browse_displays[k])
        /\ \A k \in DOMAIN last.left_sorts.report_sorts.items :
               ~Matches(last.form_to_del, last.left_sorts.report_sorts.items[k].form)
        /\ \A k \in DOMAIN last.left_sorts.browse_sorts.items :
               ~Matches(last.form_to_del, last.left_sorts.browse_sorts.items[k].form)

\* C6: remove_form fails and submits nothing, leaving the attribute as it
\* was, when form_id is the id of no form of the attribute and when the
\* form with that id is the only form.
C6_Theorem ==
    (/\ last.op = "remove_form"
     /\ \/ \A i \in DOMAIN last.forms_before : last.forms_before[i].id # last.form_id
        \/ \A i \in DOMAIN last.forms_before : last.forms_before[i].id = last.form_id)
        => /\ last.outcome # "ok"
           /\ ~last.submitted
           /\ forms = last.forms_before

C6_Witness ==
    /\ last.op = "remove_form"
    /\ Len(last.forms_before) = 1
    /\ last.forms_before[1].id = last.form_id
    /\ last.outcome = LastFormMsg
    /\ forms = last.forms_before

\* references to all forms, by id, in forms order
AllRefs(fs) == [i \in 1..Len(fs) |-> [id |-> fs[i].id, name |-> None]]

\* C7: with exactly one form validate_key_form returns a key form that
\* references that form, whatever key_form it was given.
C7_Theorem ==
    (Returned("validate_key_form") /\ Len(call.forms) = 1)
        => ret.ok /\ Matches(call.forms[1], ret.value)

C7_Witness ==
    /\ Returned("validate_key_form")
    /\ Len(call.forms) = 1
    /\ call.key_form = NoRef
    /\ ret.ok
    /\ Matches(call.forms[1], ret.value)

\* C8: with two or more forms validate_key_form fails, with the caller's
\* message when one is given, for a key_form that is None or matches no
\* form by id or name, and returns the key_form it was given otherwise.
C8_Theorem ==
    (Returned("validate_key_form") /\ Len(call.forms) >= 2)
        => IF call.key_form = NoRef \/ ~Resolves(call.key_form, call.forms)
           THEN /\ ~ret.ok
                /\ ret.err = IF call.error_msg # "" THEN call.error_msg
                             ELSE DefaultKeyFormMsg
           ELSE ret.ok /\ ret.value = call.key_form

C8_Witness ==
    /\ Returned("validate_key_form")
    /\ Len(call.forms) >= 2
    /\ call.key_form # NoRef
    /\ ~Resolves(call.key_form, call.forms)
    /\ call.error_msg = KeyFormDelMsg
    /\ ~ret.ok
    /\ ret.err = KeyFormDelMsg

\* C9: validate_displays fills the defaults from forms: for displays=None
\* both lists, and otherwise each empty list, become the references to
\* all forms in forms order; with displays=None or both lists empty the
\* call succeeds and both lists are that full list.
C9_Theorem ==
    Returned("validate_displays") =>
        /\ call.displays.is_none
              => /\ ret.ok
                 /\ ret.value.report_displays = AllRefs(call.forms)
                 /\ ret.value.browse_displays = AllRefs(call.forms)
        /\ (~call.displays.is_none /\ call.displays.report_displays = <<>>)
              => ret.value.report_displays = AllRefs(call.forms)
        /\ (~call.displays.is_none /\ call.displays.browse_displays = <<>>)
              => ret.value.browse_displays = AllRefs(call.forms)
        /\ (/\ call.displays.report_displays = <<>>
            /\ call.displays.browse_displays = <<>>) => ret.ok

C9_Witness ==
    /\ Returned("validate_displays")
    /\ ~call.displays.is_none
    /\ call.displays.report_displays = <<>>
    /\ call.displays.browse_displays = <<>>
    /\ Len(call.forms) = 2
    /\ ret.ok
    /\ ret.value.report_displays = <<IdRef(call.forms[1].id), IdRef(call.forms[2].id)>>
    /\ ret.value.browse_displays = ret.value.report_displays

EmptyList(lst) == lst.is_none \/ lst.items = <<>>

\* C10 (as claimed): validate_sorts returns the "no sorts" value whenever
\* sorts is absent or report_sorts and browse_sorts are both empty, and
\* otherwise the sorts it was given (when it returns).
C10_Claim ==
    Returned("validate_sorts") =>
        IF \/ call.sorts.is_none
           \/ EmptyList(call.sorts.report_sorts) /\ EmptyList(call.sorts.browse_sorts)
        THEN ret.ok /\ ret.value = NoSorts
        ELSE ret.ok => ret.value = call.sorts


\* the lists validate_displays checks: an empty list stands for all forms
Checked(refs, fs) == IF refs = <<>> THEN AllRefs(fs) ELSE refs

\* C11: validate_displays and validate_sorts fail exactly when, after the
\* defaults are filled, some reference of a report / browse display list or
\* of a report / browse sort entry matches no form by id or name; when every
\* reference resolves they succeed.
C11_Theorem ==
    /\ Returned("validate_displays") =>
           (ret.ok <=>
               \/ call.displays.is_none
               \/ /\ AllResolve(Checked(call.displays.report_displays, call.forms),
                                 call.forms)
                  /\ AllResolve(Checked(call.displays.browse_displays, call.forms),
                                 call.forms))
    /\ Returned("validate_displays") => (ret.ok \/ ret.err = DisplaysMsg)
    /\ Returned("validate_sorts") =>
           (ret.ok <=> /\ SortsResolve(call.sorts.report_sorts, call.forms)
                       /\ SortsResolve(call.sorts.browse_sorts, call.forms))
    /\ Returned("validate_sorts") => (ret.ok \/ ret.err = SortsMsg)

\* the first reference of the report list resolves, the second does not
C11_Witness ==
    /\ Returned("validate_displays")
    /\ Len(call.displays.report_displays) = 2
    /\ Resolves(call.displays.report_displays[1], call.forms)
    /\ ~Resolves(call.displays.report_displays[2], call.forms)
    /\ AllResolve(call.displays.browse_displays, call.forms)
    /\ ~ret.ok
    /\ ret.err = DisplaysMsg


\* the record passes the validation of _get_create_body
ValidRecord(data) ==
    _get_create_body(data.forms, data.key_form, data.displays, data.sorts).ok

\* C12: local validation runs before any call of the attributes API: create,
\* create_many and update_many make no call when a record fails the
\* validation of forms / key_form / displays / sorts (one invalid record
\* prevents the call for the whole batch), and update_many makes none when
\* attributes_list and attributes_data differ in length.
C12_Theorem ==
    (/\ \/ Returned("create") \/ Returned("create_many") \/ Returned("update_many")
     /\ \/ \E i \in DOMAIN call.attributes_data : ~ValidRecord(call.attributes_data[i])
        \/ /\ call.fn = "update_many"
           /\ Len(call.attributes_list) # Len(call.attributes_data))
        => ~ret.ok /\ ret.api = <<>>

\* the second record of a batch is invalid, the first is valid
C12_Witness ==
    /\ Returned("create_many")
    /\ Len(call.attributes_data) = 2
    /\ ValidRecord(call.attributes_data[1])
    /\ ~ValidRecord(call.attributes_data[2])
    /\ ~ret.ok
    /\ ret.api = <<>>


\* the operation left the relationships alone and submitted nothing
RelUntouched == ~last.submitted /\ relationships = last.rels_before

\* the relationship add_child(child / joint_child) adds is already there
ChildAlreadyAdded ==
    \E i \in DOMAIN last.rels_before :
        /\ last.rels_before[i].parent = SelfRef
        /\ last.rels_before[i].child = last.child
        /\ last.rels_before[i].joint_child = last.joint_child

\* the relationship add_parent(parent) adds is already there
ParentAlreadyAdded ==
    \E i \in DOMAIN last.rels_before :
        /\ last.rels_before[i].parent = last.parent
        /\ last.rels_before[i].child = SelfRef

\* C13: add_child and add_parent are idempotent: called again with the
\* child, joint_child list or parent of a relationship an earlier call
\* added, they warn, submit nothing and leave the relationships as they were.
C13_Theorem ==
    /\ (last.op = "add_child" /\ ChildAlreadyAdded)
           => last.outcome = Warned /\ RelUntouched
    /\ (last.op = "add_parent" /\ ParentAlreadyAdded)
           => last.outcome = Warned /\ RelUntouched

C13_Witness ==
    /\ last.op = "add_child"
    /\ last.joint_child # NoJoint
    /\ ChildAlreadyAdded
    /\ last.outcome = Warned
    /\ Len(relationships) = Len(last.rels_before)

SamePairing(r1, r2) ==
    r1.parent = r2.parent /\ r1.child = r2.child /\ r1.joint_child = r2.joint_child

\* C14: after any sequence of add_child, add_parent, remove_child and
\* remove_parent no two relationships of the attribute have the same parent
\* and the same child or joint_child list.
C14_Theorem ==
    \A i, j \in DOMAIN relationships :
        i # j => ~SamePairing(relationships[i], relationships[j])

\* a parent was added to an attribute that has a child and a joint child
C14_Witness ==
    /\ last.op = "add_parent"
    /\ last.submitted
    /\ Len(relationships) = 3
    /\ \E i \in DOMAIN relationships : HasJointChild(relationships[i])
    /\ \E i \in DOMAIN relationships :
           HasChild(relationships[i]) /\ relationships[i].parent = SelfRef

\* the relationship matches the arguments of the removal, as C15 words it
MatchesRemoval(rel) ==
    IF last.op = "remove_parent" THEN rel.parent.object_id = last.parent.object_id
    ELSE IF last.child # NoChild THEN rel.child = last.child
    ELSE HasJointChild(rel) /\ rel.joint_child = last.joint_child

\* ... and with the exception remove_parent makes for the attribute itself
MatchesRemovalNotSelf(rel) ==
    /\ MatchesRemoval(rel)
    /\ last.op = "remove_parent" => last.parent # SelfRef

IsRemoval ==
    \/ last.op = "remove_parent"
    \/ last.op = "remove_child" /\ ~BothOrNeither(last.child, last.joint_child)

RemoveAt(s, i) == SubSeq(s, 1, i - 1) \o SubSeq(s, i + 1, Len(s))

\* the removal took out the first relationship that passes the test and
\* only that one, or warned when none passes
RemovesFirst(Test(_)) ==
    IF \E i \in DOMAIN last.rels_before : Test(last.rels_before[i])
    THEN /\ last.submitted
         /\ \E i \in DOMAIN last.rels_before :
                /\ Test(last.rels_before[i])
                /\ \A j \in 1..(i - 1) : ~Test(last.rels_before[j])
                /\ relationships = RemoveAt(last.rels_before, i)
    ELSE last.outcome = Warned /\ RelUntouched

\* C15 (as claimed): remove_child and remove_parent remove the first
\* relationship with the same child, the same joint_child list or the same
\* parent id, and only that one, the others staying in order; they warn and
\* submit nothing when no relationship matches.
C15_Original == IsRemoval => RemovesFirst(MatchesRemoval)

\* C15 (amended): as above, except that remove_parent matches no
\* relationship when the given parent is the attribute itself: it then
\* warns and submits nothing even if a relationship has that parent id.
C15_Amended == IsRemoval => RemovesFirst(MatchesRemovalNotSelf)

\* the middle one of three relationships was removed
C15_Witness ==
    /\ IsRemoval
    /\ last.submitted
    /\ last.found = 2
    /\ Len(last.rels_before) = 3
    /\ relationships = <<last.rels_before[1], last.rels_before[3]>>

\* C16: add_child and remove_child raise ValueError, before looking at or
\* submitting any relationship, when child and joint_child are both given
\* or both missing.
C16_Theorem ==
    (/\ last.op \in {"add_child", "remove_child"}
     /\ (last.child # NoChild) = (last.joint_child # NoJoint))
        => /\ last.outcome = EitherMsg
           /\ last.found = None
           /\ RelUntouched

\* both are given and a relationship with that child exists
C16_Witness ==
    /\ last.op = "remove_child"
    /\ last.child # NoChild
    /\ last.joint_child # NoJoint
    /\ \E i \in DOMAIN relationships : relationships[i].child = last.child
    /\ last.outcome = EitherMsg
    /\ RelUntouched


\* C17 (as claimed): alter runs the validation exactly when one of forms,
\* key_form, displays, sorts is supplied, and skips it otherwise, whatever
\* other arguments (name, description, ...) are given.
C17_Original == last.op = "alter" => (last.validated <=> last.supplied)

\* C17 (amended): alter runs the validation exactly when a name (or
\* sub_type, is_embedded, description, destination_folder_id,
\* attribute_lookup_table), a non-empty forms list, a key_form, displays or
\* sorts is supplied; it skips it when only hidden, comments or owner (or
\* nothing, or an empty forms list alone) is given.
C17_Amended ==
    last.op = "alter" =>
        /\ last.validated <=> (last.named \/ last.truthy)
        /\ ~last.validated => last.outcome = "ok"

\* only a name is given and the validation runs
C17_Witness ==
    /\ last.op = "alter"
    /\ last.named
    /\ ~last.supplied
    /\ last.validated


\* the form mutators
IsFormMutator ==
    last.op \in {"alter_form", "alter_fact_expression",
                 "add_fact_expression", "remove_fact_expression"}

\* what the operation recorded in last has to do to a form with the given id
Mutated(form) ==
    CASE last.op = "alter_form" -> [form EXCEPT !.alias = last.arg]
      [] last.op = "alter_fact_expression" ->
            [form EXCEPT !.expressions =
                [j \in DOMAIN @ |-> IF @[j].id = last.arg.id THEN last.arg ELSE @[j]]]
      [] last.op = "add_fact_expression" ->
            [form EXCEPT !.expressions = @ \o <<last.arg>>]
      [] last.op = "remove_fact_expression" ->
            [form EXCEPT !.expressions = SelectSeq(@, LAMBDA e : e.id # last.arg)]

\* C18: a form mutator raises ValueError, changes no form and submits
\* nothing when no form has the given id; otherwise it changes exactly the
\* forms with that id and publishes all the forms in the same order.
C18_Theorem ==
    IsFormMutator =>
        LET found == \E i \in DOMAIN last.forms_before :
                         last.forms_before[i].id = last.form_id
        IN IF ~found
           THEN /\ last.outcome = "ValueError"
                /\ ~last.submitted
                /\ forms = last.forms_before
           ELSE /\ last.outcome = "ok"
                /\ last.submitted
                /\ Len(last.new_forms) = Len(last.forms_before)
                /\ \A i \in DOMAIN last.forms_before :
                       last.new_forms[i] =
                           IF last.forms_before[i].id = last.form_id
                           THEN Mutated(last.forms_before[i])
                           ELSE last.forms_before[i]
                /\ forms = last.new_forms

\* the second of two forms was changed by a mutator, the first was not
C18_Witness ==
    /\ IsFormMutator
    /\ last.submitted
    /\ Len(last.forms_before) = 2
    /\ last.form_id = last.forms_before[2].id
    /\ last.new_forms[2] # last.forms_before[2]
    /\ last.new_forms[1] = last.forms_before[1]


\* the server calls of the returned operation, by endpoint
Apis == [i \in DOMAIN ret.api |-> ret.api[i].api]

\* C19: a successful create posts the attribute and then alters hidden if
\* and only if hidden was requested true; with hidden False or None the
\* create call is the only server call.
C19_Theorem ==
    (Returned("create") /\ ret.ok) =>
        LET hidden == call.attributes_data[1].hidden
        IN /\ hidden = "true" =>
                /\ Apis = <<"create_attribute", "update_attribute">>
                /\ ret.api[2].hidden = TRUE
                /\ ret.api[2].id = ret.value[1].id
                /\ ret.value[1].hidden = TRUE
           /\ hidden \in {"none", "false"} =>
                /\ Apis = <<"create_attribute">>
                /\ ret.value[1].hidden = FALSE

\* an attribute was created with hidden=False: one call
C19_Witness ==
    /\ Returned("create")
    /\ ret.ok
    /\ call.attributes_data[1].hidden = "false"
    /\ Len(ret.api) = 1


\* C20: a successful create_many / update_many sends one payload per
\* record and returns one attribute per record in input order: attribute i
\* comes from response i (the answer to payload i) with the expression
\* format of record i, and in update_many payload i carries the id of
\* attributes_list[i] with the body built from attributes_data[i].
C20_Theorem ==
    ((Returned("create_many") \/ Returned("update_many")) /\ ret.ok) =>
        LET data == call.attributes_data
            dtos == ret.api[1].dtos
        IN /\ Len(dtos) = Len(data)
           /\ Len(ret.value) = Len(data)
           /\ \A i \in DOMAIN data :
                /\ dtos[i].name = data[i].name
                /\ dtos[i].body.forms = data[i].forms
                /\ dtos[i].show_expression_as = data[i].show_expression_as
                /\ ret.value[i].show_expression_as = data[i].show_expression_as
                /\ ret.value[i].name = dtos[i].name
                /\ ret.value[i].forms = dtos[i].body.forms
                /\ ret.value[i].key_form = dtos[i].body.key_form
                /\ call.fn = "create_many" => ret.value[i].id = NewId(i)
                /\ call.fn = "update_many" =>
                        /\ dtos[i].id = call.attributes_list[i].id
                        /\ ret.value[i].id = call.attributes_list[i].id

\* two records that differ in name, forms and expression format were
\* created in one batch
C20_Witness ==
    /\ Returned("create_many")
    /\ ret.ok
    /\ Len(call.attributes_data) = 2
    /\ call.attributes_data[1].name # call.attributes_data[2].name
    /\ call.attributes_data[1].forms # call.attributes_data[2].forms
    /\ call.attributes_data[1].show_expression_as
           # call.attributes_data[2].show_expression_as
    /\ Len(ret.value) = 2


\* the first record of a batch that create rejects, None if it accepts all
FirstRejected(attributes_data) ==
    IF \A i \in DOMAIN attributes_data : create(attributes_data[i]).ok THEN None
    ELSE CHOOSE i \in DOMAIN attributes_data :
            /\ ~create(attributes_data[i]).ok
            /\ \A j \in DOMAIN attributes_data :
                   j < i => create(attributes_data[j]).ok

\* C21: create_many and update_many (given lists of equal length) accept a
\* batch exactly when create accepts each of its records, with the body
\* create posts for that record; otherwise they raise the error create
\* raises for the first record it rejects.
C21_Theorem ==
    ((Returned("create_many") \/ Returned("update_many"))
        /\ (call.fn = "update_many" =>
                Len(call.attributes_list) = Len(call.attributes_data))) =>
        LET data == call.attributes_data
            rejected == FirstRejected(data)
        IN /\ ret.ok <=> rejected = None
           /\ ret.ok =>
                \A i \in DOMAIN data :
                    ret.api[1].dtos[i].body = create(data[i]).api[1].dtos[1].body
           /\ ~ret.ok => ret.err = create(data[rejected]).err

\* a batch was rejected for its second record, the first being acceptable
C21_Witness ==
    /\ Returned("create_many")
    /\ ~ret.ok
    /\ Len(call.attributes_data) = 2
    /\ FirstRejected(call.attributes_data) = 2


\* the ids of the subscriptions of the call whose mode is (not) executable,
\* in list order
IdsWhere(subscriptions, executable) ==
    LET chosen == SelectSeq(subscriptions,
                     LAMBDA s : (s.mode \in {"EMAIL", "FILE", "HISTORY_LIST", "FTP"})
                                  = executable)
    IN [i \in DOMAIN chosen |-> chosen[i].id]

\* C22: SubscriptionManager.execute executes exactly the subscriptions whose
\* delivery mode is EMAIL, FILE, HISTORY_LIST or FTP, warns for each other
\* one without a call, and goes on with the rest of the list.
C22_Theorem ==
    Returned("execute") =>
        /\ ret.ok
        /\ [i \in DOMAIN ret.api |-> ret.api[i].id] = IdsWhere(call.subscriptions, TRUE)
        /\ \A i \in DOMAIN ret.api : ret.api[i].api = "execute"
        /\ [i \in DOMAIN ret.warnings |-> ret.warnings[i].id]
               = IdsWhere(call.subscriptions, FALSE)

\* a CACHE subscription was skipped with a warning and a later EMAIL
\* subscription of the same list was executed
C22_Witness ==
    /\ Returned("execute")
    /\ Len(call.subscriptions) >= 2
    /\ call.subscriptions[1].mode = "CACHE"
    /\ call.subscriptions[2].mode = "EMAIL"
    /\ ret.warnings # <<>>
    /\ \E i \in DOMAIN ret.api : ret.api[i].id = 2


\* C23: SubscriptionManager.delete returns False without a call when no
\* subscription is passed or when, without force, the answer is not Y;
\* otherwise it tries to delete every subscription, whatever the outcome of
\* the earlier ones, and returns True exactly when every deletion succeeded.
C23_Theorem ==
    Returned("delete") =>
        IF call.subscriptions = <<>> \/ (~call.force /\ call.answer # "Y")
        THEN ret.value = FALSE /\ ret.api = <<>>
        ELSE /\ Len(ret.api) = Len(call.subscriptions)
             /\ \A i \in DOMAIN ret.api :
                    /\ ret.api[i].api = "remove_subscription"
                    /\ ret.api[i].id = call.subscriptions[i]
             /\ ret.value = (\A i \in DOMAIN ret.api : ret.api[i].ok)

\* the first deletion failed, a later one was still made and succeeded,
\* and delete returned False
C23_Witness ==
    /\ Returned("delete")
    /\ Len(ret.api) >= 2
    /\ ~ret.api[1].ok
    /\ ret.api[2].ok
    /\ ret.value = FALSE


\* C24: the dispatcher builds a CacheUpdateSubscription, EmailSubscription,
\* FileSubscription, FTPSubscription, HistoryListSubscription or
\* MobileSubscription for the delivery modes CACHE, EMAIL, FILE, FTP,
\* HISTORY_LIST and MOBILE, and a base Subscription for every other
\* delivery mode, from the payload it was given.
C24_Theorem ==
    (Returned("dispatch_from_dict") /\ call.source.delivery.mode \in DeliveryModes) =>
        LET mode == call.source.delivery.mode
        IN /\ ret.ok
           /\ ret.value.source = call.source
           /\ mode = "CACHE" => ret.value.type = "CacheUpdateSubscription"
           /\ mode = "EMAIL" => ret.value.type = "EmailSubscription"
           /\ mode = "FILE" => ret.value.type = "FileSubscription"
           /\ mode = "FTP" => ret.value.type = "FTPSubscription"
           /\ mode = "HISTORY_LIST" => ret.value.type = "HistoryListSubscription"
           /\ mode = "MOBILE" => ret.value.type = "MobileSubscription"
           /\ mode \notin {"CACHE", "EMAIL", "FILE", "FTP", "HISTORY_LIST", "MOBILE"}
                 => ret.value.type = "Subscription"

\* a PRINTER payload was dispatched to the base class
C24_Witness ==
    /\ Returned("dispatch_from_dict")
    /\ call.source.delivery.mode = "PRINTER"
    /\ ret.ok
    /\ ret.value.type = "Subscription"


\* some relationship of the list has the attribute itself as parent
HasSelfParent(rels) ==
    \E i \in DOMAIN rels : rels[i].parent.object_id = SelfRef.object_id

\* C25: remove_parent with the attribute's own reference removes nothing
\* and ends in the warning, while add_parent with it adds a relationship
\* whose parent and child are the attribute when no relationship has the
\* attribute as parent yet.
C25_Theorem ==
    /\ (last.op = "remove_parent" /\ last.parent.object_id = SelfRef.object_id) =>
            /\ last.outcome = Warned
            /\ ~last.submitted
            /\ relationships = last.rels_before
    /\ (last.op = "add_parent" /\ last.parent = SelfRef
            /\ ~HasSelfParent(last.rels_before)) =>
            /\ last.outcome = "ok"
            /\ last.submitted
            /\ Len(relationships) = Len(last.rels_before) + 1
            /\ relationships[Len(relationships)].parent = SelfRef
            /\ relationships[Len(relationships)].child = SelfRef

\* remove_parent(self) left in place a relationship of the attribute with
\* itself as parent and as child, which add_parent(self) had added
C25_Witness ==
    /\ last.op = "remove_parent"
    /\ last.parent = SelfRef
    /\ \E i \in DOMAIN relationships :
          relationships[i].parent = SelfRef /\ relationships[i].child = SelfRef


C27_Claim ==
    ((Returned("create_many") \/ Returned("update_many")) /\ ret.ok) =>
        \A i \in DOMAIN ret.value :
            LET asked == call.attributes_data[i].hidden = "true"
                altered == \E j \in 2..Len(ret.api) :
                               /\ ret.api[j].api = "update_attribute"
                               /\ ret.api[j].id = ret.value[i].id
            IN /\ altered <=> asked
               /\ ret.value[i].hidden <=> asked


\* the operations of C28 and their local validation errors
Mutators ==
    {"alter", "remove_form", "add_form", "alter_form", "alter_fact_expression",
     "add_fact_expression", "remove_fact_expression"}

\* C28: an alter, remove_form, add_form, alter_form or fact-expression
\* mutator that raises a local validation error leaves forms, key_form,
\* displays and sorts as they were and submits nothing.
C28_Theorem ==
    [][(last'.op \in Mutators /\ last'.outcome # "ok") =>
          /\ ~last'.submitted
          /\ UNCHANGED <<forms, key_form, displays, sorts>>]_vars

\* an alter that gave no displays failed in validate_sorts, after
\* validate_displays had run on the attribute's own displays
C28_Witness ==
    /\ last.op = "alter"
    /\ last.outcome = SortsMsg
    /\ last.validated
    /\ ~displays.is_none


\* C29 (as claimed): remove_form of an existing, non-last form on an
\* attribute that has displays but no sorts does not fail on the missing
\* sorts: whenever it gets past the key form and displays checks it submits
\* the update and the attribute still has no sorts.
C29_Claim ==
    [][(/\ sorts.is_none
        /\ ~displays.is_none
        /\ last'.op = "remove_form"
        /\ last'.form_to_del # NoForm
        /\ ~IsLastForm(last'.new_forms)
        /\ last'.outcome \notin {KeyFormDelMsg, DisplaysMsg})
          => /\ last'.outcome = "ok"
             /\ last'.submitted
             /\ sorts'.is_none
             /\ forms' = last'.new_forms]_vars


\* C30: CacheUpdateSubscription.create passes delivery mode CACHE to the
\* base create whatever the delivery argument is, and create and alter both
\* pass non-empty cache settings: a cache field that was omitted is passed
\* as RESERVED, RESERVED and [WEB], a field that was given is passed as given.
C30_Theorem ==
    \A fn \in {"CacheUpdateSubscription.create", "CacheUpdateSubscription.alter"} :
        Returned(fn) =>
            /\ ret.ok
            /\ Len(ret.api) = 1
            /\ LET sent == ret.api[1]
               IN /\ sent.delivery = call.delivery
                  /\ fn = "CacheUpdateSubscription.create" =>
                        /\ sent.base = "_Subscription__create"
                        /\ sent.delivery_mode = "CACHE"
                  /\ fn = "CacheUpdateSubscription.alter" => sent.base = "alter"
                  /\ sent.cache_cache_type # ""
                  /\ sent.cache_shortcut_cache_format # ""
                  /\ sent.cache_library_cache_types # <<>>
                  /\ call.cache_cache_type.none => sent.cache_cache_type = "RESERVED"
                  /\ call.cache_shortcut_cache_format.none =>
                        sent.cache_shortcut_cache_format = "RESERVED"
                  /\ call.cache_library_cache_types.none =>
                        sent.cache_library_cache_types = <<"WEB">>
                  /\ call.cache_cache_type.value # "" =>
                        sent.cache_cache_type = call.cache_cache_type.value
                  /\ call.cache_library_cache_types.value # <<>> =>
                        sent.cache_library_cache_types =
                            call.cache_library_cache_types.value

\* an alter that names none of the cache fields and carries an EMAIL
\* delivery has returned
C30_Witness ==
    /\ Returned("CacheUpdateSubscription.alter")
    /\ call.delivery = Arg(FALSE, "EMAIL")
    /\ call.cache_cache_type.none
    /\ call.cache_shortcut_cache_format.none
    /\ call.cache_library_cache_types.none
    /\ ret.api[1].cache_library_cache_types = <<"WEB">>

====
